---- MODULE Spec2Model ----
(***************************************************************************)
(* Editorial-workflow authorization layer of Backend-Strapi.               *)
(*                                                                         *)
(* The five policies (role-check, cms-role, is-owner-or-editor,            *)
(* workflow-status, can-publish) are operators over a request context and  *)
(* the article store; the route table binds them into chains.  Two         *)
(* specifications share the variables:                                     *)
(*   SpecPolicy  applies one policy to one drawn context over a drawn      *)
(*               store (the policies as functions);                        *)
(*   Spec        runs the authenticated article routes: chain, then the    *)
(*               controller's write.                                       *)
(***************************************************************************)
EXTENDS Naturals, Sequences, FiniteSets

VARIABLES articles, last, inflight, roleRows, permissions, boot

vars == <<articles, last, inflight, roleRows, permissions, boot>>

bootVars == <<roleRows, permissions, boot>>

\* ------------------------------------------------------------------ bounds

NumArticles == 1
MaxUserId == 2

ArticleIds == 1..NumArticles
UserIds == 1..MaxUserId

\* ------------------------------------------------------------- JS values

Undefined == "<undefined>"
Null == "<null>"
NoId == 0

\* String.prototype.toLowerCase over the strings the model draws.
ToLowerCase(s) ==
  CASE s = "Editor" -> "editor"
    [] s = "Reporter" -> "reporter"
    [] s = " Editor" -> " editor"
    [] OTHER -> s

\* String.prototype.trim over the strings the model draws.
Trim(s) ==
  CASE s = " editor" -> "editor"
    [] s = " Editor" -> "Editor"
    [] OTHER -> s

\* typeof x === 'string' ? x.toLowerCase() : ''
LowerOrEmpty(x) == IF x = Undefined THEN "" ELSE ToLowerCase(x)

\* String.prototype.includes(keyword) over the error texts the model draws.
Includes(text, keyword) ==
  \/ text = "relation articles not found" /\ keyword = "not found"
  \/ text = "Resource not found" /\ keyword = "not found"
  \/ text = "Unable to verify ownership - resource has no creator"
       /\ keyword = "ownership"
  \/ text = "You do not have permission to modify this resource"
       /\ keyword = "permission"

\* ---------------------------------------------------------------- inputs

RoleTypeStrings ==
  {Undefined, "reader", "reporter", "reviewer", "editor", "admin",
   "authenticated", "author", "Editor", " editor"}

RoleNameStrings == {Undefined, "Editor", "Reporter"}

Strategies == {"api-token", "users-permissions"}

\* ctx.state.user: absent, present without id, or a resolved principal
\* (type and name are user.role.type and user.role.name).
NoUser == [present |-> FALSE, id |-> NoId, type |-> Undefined, name |-> Undefined]

Users ==
  {NoUser} \cup
  [present : {TRUE}, id : {NoId}, type : {Undefined, "editor"}, name : {Undefined}] \cup
  [present : {TRUE}, id : UserIds, type : RoleTypeStrings, name : RoleNameStrings]

\* request.body.workflowStatus: absent, the empty string, the three states,
\* one foreign value.
RequestedStatuses == {Undefined, "", "draft", "review", "published", "archived"}

\* What entityService.findOne does: "ok" answers, any other value is the
\* message of the error it throws.
StoreOutcomes == {"ok", "connection timeout", "relation articles not found"}

Contexts ==
  [strategy : Strategies, user : Users, status : RequestedStatuses,
   id : {NoId} \cup ArticleIds, store : StoreOutcomes]

\* config.roles of the role-check bindings: the route table's lists, the
\* empty list and one list written with capitals and padding.
RoleConfigs ==
  {<<>>, <<"editor", "admin">>,
   <<"reporter", "reviewer", "editor", "admin">>, <<" Editor">>}

\* ---------------------------------------------------------------- articles

Statuses == {"draft", "review", "published"}

\* An article row; createdBy and reviewedBy hold a user id, NoId for none.
Article(status, publishedAt, createdBy, reviewed, submitted) ==
  [exists |-> TRUE, workflowStatus |-> status, publishedAt |-> publishedAt,
   createdBy |-> createdBy,
   reviewNotes |-> reviewed.notes, reviewedBy |-> reviewed.by,
   reviewedAt |-> reviewed.at, submittedForReviewAt |-> submitted]

NotReviewed == [notes |-> Null, by |-> NoId, at |-> Null]

\* findOne's null: no row under that id.
Absent ==
  [exists |-> FALSE, workflowStatus |-> Null, publishedAt |-> Null,
   createdBy |-> NoId, reviewNotes |-> Null, reviewedBy |-> NoId,
   reviewedAt |-> Null, submittedForReviewAt |-> Null]

\* Rows as the policies may find them: status and creator possibly missing.
StoredArticles ==
  {Article(s, IF s = "published" THEN "ts" ELSE Null, c, NotReviewed, Null) :
     s \in Statuses \cup {Null}, c \in UserIds \cup {NoId}}

\* ------------------------------------------------------------- decisions

\* A policy's answer: `return true`, or the Error it throws, with the number
\* of entityService.findOne calls made on the way.
Allow(n) ==
  [allowed |-> TRUE, reason |-> "None", msg |-> "", reads |-> n]

Deny(code, message, n) ==
  [allowed |-> FALSE, reason |-> code, msg |-> message, reads |-> n]

\* The bypass taken only for a token that also carries a user.
IsApiToken_NeedsUser(ctx) == ctx.strategy = "api-token" /\ ctx.user.present

\* state?.auth?.strategy?.name === 'api-token'
IsApiToken(ctx) == ctx.strategy = "api-token"

\* !user?.id
NoUserId(ctx) == ~ctx.user.present \/ ctx.user.id = NoId

SeqRange(q) == {q[i] : i \in 1..Len(q)}

\* ------------------------------------------------- policy: workflow-status

validStatuses == <<"draft", "review", "published">>

\* The table with a reviewer allowed to take a published article to draft.
VALID_TRANSITIONS_ReviewerUnpublishes(role, currentStatus) ==
  CASE role = "reporter" /\ currentStatus = "draft" -> <<"review">>
    [] role = "reviewer" /\ currentStatus = "draft" -> <<"review">>
    [] role = "reviewer" /\ currentStatus = "review" -> <<"draft">>
    [] role = "reviewer" /\ currentStatus = "published" -> <<"draft">>
    [] role = "editor" /\ currentStatus = "draft" -> <<"review", "published">>
    [] role = "editor" /\ currentStatus = "review" -> <<"draft", "published">>
    [] role = "editor" /\ currentStatus = "published" -> <<"draft">>
    [] OTHER -> <<>>

\* The table with a reporter allowed to publish an article under review.
VALID_TRANSITIONS_ReporterPublishes(role, currentStatus) ==
  CASE role = "reporter" /\ currentStatus = "draft" -> <<"review">>
    [] role = "reporter" /\ currentStatus = "review" -> <<"published">>
    [] role = "reviewer" /\ currentStatus = "draft" -> <<"review">>
    [] role = "reviewer" /\ currentStatus = "review" -> <<"draft">>
    [] role = "editor" /\ currentStatus = "draft" -> <<"review", "published">>
    [] role = "editor" /\ currentStatus = "review" -> <<"draft", "published">>
    [] role = "editor" /\ currentStatus = "published" -> <<"draft">>
    [] OTHER -> <<>>

\* The table with a row for admin, equal to the editor's.
VALID_TRANSITIONS_AdminRow(role, currentStatus) ==
  CASE role = "reporter" /\ currentStatus = "draft" -> <<"review">>
    [] role = "reviewer" /\ currentStatus = "draft" -> <<"review">>
    [] role = "reviewer" /\ currentStatus = "review" -> <<"draft">>
    [] role \in {"editor", "admin"} /\ currentStatus = "draft" ->
         <<"review", "published">>
    [] role \in {"editor", "admin"} /\ currentStatus = "review" ->
         <<"draft", "published">>
    [] role \in {"editor", "admin"} /\ currentStatus = "published" -> <<"draft">>
    [] OTHER -> <<>>

\* VALID_TRANSITIONS[role][currentStatus], with the lookups' defaults
\* (`|| {}` for a role without a row, `|| []` for a state without an entry).
VALID_TRANSITIONS(role, currentStatus) ==
  CASE role = "reporter" /\ currentStatus = "draft" -> <<"review">>
    [] role = "reviewer" /\ currentStatus = "draft" -> <<"review">>
    [] role = "reviewer" /\ currentStatus = "review" -> <<"draft">>
    [] role = "editor" /\ currentStatus = "draft" -> <<"review", "published">>
    [] role = "editor" /\ currentStatus = "review" -> <<"draft", "published">>
    [] role = "editor" /\ currentStatus = "published" -> <<"draft">>
    [] OTHER -> <<>>

\* The keys of TRANSITION_ERROR_MESSAGES that a `${role}:${status}` lookup hits.
TRANSITION_ERROR_MESSAGES ==
  {"reporter:review", "reporter:published", "reviewer:published"}

ErrorKey(role, status) ==
  CASE role = "reporter" /\ status = "review" -> "reporter:review"
    [] role = "reporter" /\ status = "published" -> "reporter:published"
    [] role = "reviewer" /\ status = "published" -> "reviewer:published"
    [] OTHER -> "no-entry"

\* The message thrown for an invalid transition: a table entry, the readers'
\* message, or the generic text built from the states and the allowed list.
TransitionErrorMessage(effectiveRole, currentStatus) ==
  IF ErrorKey(effectiveRole, currentStatus) \in TRANSITION_ERROR_MESSAGES
    THEN ErrorKey(effectiveRole, currentStatus)
  ELSE IF effectiveRole = "" \/ effectiveRole = "reader" THEN "reader:any"
  ELSE "Invalid status transition"

\* The branch for a request without params.id (a new article).
WorkflowStatusOnCreate(ctx) ==
  LET roleType == LowerOrEmpty(ctx.user.type)
      newStatus == ctx.status
  IN  IF roleType = "reporter" /\ newStatus # "draft"
        THEN Deny("InitialStatusDenied", "Reporters can only create articles in draft status", 0)
      ELSE IF roleType = "reviewer"
        THEN Deny("InitialStatusDenied", "Reviewers cannot create articles", 0)
      ELSE IF roleType = "reader"
        THEN Deny("InitialStatusDenied", "Readers cannot create articles", 0)
      ELSE Allow(0)

\* The table lookup for an existing article whose status would change.
WorkflowStatusTransition(ctx, currentStatus) ==
  LET roleType == LowerOrEmpty(ctx.user.type)
      roleName == LowerOrEmpty(ctx.user.name)
      effectiveRole == IF roleType # "" THEN roleType ELSE roleName
      allowedNextStatuses == VALID_TRANSITIONS(effectiveRole, currentStatus)
  IN  IF ctx.status \in SeqRange(allowedNextStatuses)
        THEN Allow(1)
        ELSE Deny("InvalidTransition",
                  TransitionErrorMessage(effectiveRole, currentStatus), 1)

\* The shortcut left out: every requested status goes to the table.
StatusUnchanged_NoShortcut(currentStatus, newStatus) == FALSE

\* currentStatus === newStatus
StatusUnchanged(currentStatus, newStatus) == currentStatus = newStatus

\* The stored status taken as it is, missing or not.
CurrentStatus_NoDefault(article) == article.workflowStatus

\* article?.workflowStatus || 'draft'
CurrentStatus(article) ==
  IF article.workflowStatus = Null THEN "draft" ELSE article.workflowStatus

\* !newStatus: no workflowStatus in the body, or a falsy one.
NoNewStatus(ctx) == ctx.status \in {Undefined, ""}

WorkflowStatus(ctx, store) ==
  IF IsApiToken(ctx) THEN Allow(0)
  ELSE IF NoUserId(ctx)
    THEN Deny("Unauthenticated", "You must be logged in to change article status", 0)
  ELSE IF NoNewStatus(ctx) THEN Allow(0)
  ELSE IF ctx.status \notin SeqRange(validStatuses)
    THEN Deny("InvalidStatusValue", "Invalid status value", 0)
  ELSE IF ctx.id = NoId THEN WorkflowStatusOnCreate(ctx)
  ELSE IF ctx.store # "ok"
    THEN Deny("StoreFailure", "Unable to verify article status", 1)
  ELSE IF ~store[ctx.id].exists THEN Deny("NotFound", "Article not found", 1)
  ELSE LET currentStatus == CurrentStatus(store[ctx.id])
       IN  IF StatusUnchanged(currentStatus, ctx.status) THEN Allow(1)
           ELSE WorkflowStatusTransition(ctx, currentStatus)

\* --------------------------------------------- policy: is-owner-or-editor

\* user.role.type or user.role.name is 'editor'.
IsEditor(user) ==
  LowerOrEmpty(user.type) = "editor" \/ LowerOrEmpty(user.name) = "editor"

\* What the catch block takes an Error to be, by the word its message holds.
CustomErrorReason(message) ==
  CASE Includes(message, "permission") -> "Forbidden"
    [] Includes(message, "not found") -> "NotFound"
    [] Includes(message, "logged in") -> "Unauthenticated"
    [] Includes(message, "ownership") -> "IntegrityError"
    [] Includes(message, "required") -> "InvalidRequest"
    [] OTHER -> "None"

\* The catch block: an Error whose message holds one of the five words is
\* thrown on as it is, anything else becomes the policy's own error.
OwnerCheckCatch(message) ==
  IF CustomErrorReason(message) # "None"
    THEN Deny(CustomErrorReason(message), message, 1)
    ELSE Deny("StoreFailure", "An error occurred while verifying access permissions", 1)

\* The ownership comparison left out: any entity with a creator passes.
OwnerCheck_NoComparison(ctx, entity) ==
  IF ~entity.exists THEN OwnerCheckCatch("Resource not found")
  ELSE IF entity.createdBy = NoId
    THEN OwnerCheckCatch("Unable to verify ownership - resource has no creator")
  ELSE Allow(1)

\* An entity without a recorded creator let through.
OwnerCheck_NoCreatorAllowed(ctx, entity) ==
  IF ~entity.exists THEN OwnerCheckCatch("Resource not found")
  ELSE IF entity.createdBy = NoId THEN Allow(1)
  ELSE IF entity.createdBy # ctx.user.id
    THEN OwnerCheckCatch("You do not have permission to modify this resource")
  ELSE Allow(1)

\* The try block after the fetch: the ownership comparison on the entity.
OwnerCheck(ctx, entity) ==
  IF ~entity.exists THEN OwnerCheckCatch("Resource not found")
  ELSE IF entity.createdBy = NoId
    THEN OwnerCheckCatch("Unable to verify ownership - resource has no creator")
  ELSE IF entity.createdBy # ctx.user.id
    THEN OwnerCheckCatch("You do not have permission to modify this resource")
  ELSE Allow(1)

\* The resource id and the fetch looked at before the editor's pass.
IsOwnerOrEditor_EditorLast(ctx, store) ==
  IF IsApiToken(ctx) THEN Allow(0)
  ELSE IF NoUserId(ctx)
    THEN Deny("Unauthenticated", "You must be logged in to access this resource", 0)
  ELSE IF ctx.id = NoId THEN Deny("InvalidRequest", "Resource ID is required", 0)
  ELSE IF ctx.store # "ok" THEN OwnerCheckCatch(ctx.store)
  ELSE IF IsEditor(ctx.user) THEN Allow(1)
  ELSE OwnerCheck(ctx, store[ctx.id])

IsOwnerOrEditor(ctx, store) ==
  IF IsApiToken(ctx) THEN Allow(0)
  ELSE IF NoUserId(ctx)
    THEN Deny("Unauthenticated", "You must be logged in to access this resource", 0)
  ELSE IF IsEditor(ctx.user) THEN Allow(0)
  ELSE IF ctx.id = NoId THEN Deny("InvalidRequest", "Resource ID is required", 0)
  ELSE IF ctx.store # "ok" THEN OwnerCheckCatch(ctx.store)
  ELSE OwnerCheck(ctx, store[ctx.id])

\* ---------------------------------------------------- policy: can-publish

\* Reviewers let through as well.
canPublish_OrReviewer(user) ==
  \/ LowerOrEmpty(user.type) \in {"editor", "reviewer"}
  \/ LowerOrEmpty(user.name) \in {"editor", "reviewer"}

\* roleType === 'editor' || roleName === 'editor'
canPublish(user) ==
  LowerOrEmpty(user.type) = "editor" \/ LowerOrEmpty(user.name) = "editor"

CanPublish(ctx) ==
  IF IsApiToken(ctx) THEN Allow(0)
  ELSE IF NoUserId(ctx)
    THEN Deny("Unauthenticated", "You must be logged in to publish content", 0)
  ELSE IF ~canPublish(ctx.user)
    THEN Deny("Forbidden", "You do not have permission to publish content", 0)
  ELSE Allow(0)

\* ----------------------------------------------------- policy: role-check

\* new Set(allowedRoles.map(r => r.toLowerCase().trim()))
normalizedAllowed(allowedRoles) ==
  {Trim(ToLowerCase(r)) : r \in SeqRange(allowedRoles)}

\* The configuration looked at before the user.
RoleCheck_ConfigFirst(ctx, allowedRoles) ==
  LET roleType == LowerOrEmpty(ctx.user.type)
      roleName == LowerOrEmpty(ctx.user.name)
  IN  IF IsApiToken(ctx) THEN Allow(0)
      ELSE IF Len(allowedRoles) = 0
        THEN Deny("Misconfigured", "Access denied - policy configuration error", 0)
      ELSE IF NoUserId(ctx)
        THEN Deny("Unauthenticated", "You must be logged in to access this resource", 0)
      ELSE IF roleType = "" /\ roleName = ""
        THEN Deny("Forbidden", "Access denied - no role assigned to your account", 0)
      ELSE IF ~(roleType \in normalizedAllowed(allowedRoles)
                \/ roleName \in normalizedAllowed(allowedRoles))
        THEN Deny("Forbidden", "Access denied. Required roles", 0)
      ELSE Allow(0)

RoleCheck(ctx, allowedRoles) ==
  LET roleType == LowerOrEmpty(ctx.user.type)
      roleName == LowerOrEmpty(ctx.user.name)
  IN  IF IsApiToken(ctx) THEN Allow(0)
      ELSE IF NoUserId(ctx)
        THEN Deny("Unauthenticated", "You must be logged in to access this resource", 0)
      ELSE IF Len(allowedRoles) = 0
        THEN Deny("Misconfigured", "Access denied - policy configuration error", 0)
      ELSE IF roleType = "" /\ roleName = ""
        THEN Deny("Forbidden", "Access denied - no role assigned to your account", 0)
      ELSE IF ~(roleType \in normalizedAllowed(allowedRoles)
                \/ roleName \in normalizedAllowed(allowedRoles))
        THEN Deny("Forbidden", "Access denied. Required roles", 0)
      ELSE Allow(0)

\* ------------------------------------------------------- policy: cms-role

\* The set without the two older CMS roles.
cmsAllowed_RbacOnly == {"admin", "editor", "reviewer", "reporter"}

cmsAllowed == {"admin", "editor", "reviewer", "reporter", "author", "contributor"}

\* (type || name || '').trim().toLowerCase()
cmsNormalized(user) ==
  LET raw == IF user.type # Undefined THEN user.type
             ELSE IF user.name # Undefined THEN user.name ELSE ""
  IN  ToLowerCase(Trim(raw))

\* A policy that returns false is answered with the host's generic refusal.
CmsRole(ctx) ==
  IF IsApiToken(ctx) THEN Allow(0)
  ELSE IF ~ctx.user.present THEN Deny("PolicyFailed", "Policy Failed", 0)
  ELSE IF cmsNormalized(ctx.user) = "" THEN Deny("PolicyFailed", "Policy Failed", 0)
  ELSE IF cmsNormalized(ctx.user) \notin cmsAllowed
    THEN Deny("PolicyFailed", "Policy Failed", 0)
  ELSE Allow(0)

\* ------------------------------------------------------------ route table

RoleCheckBinding(roles) == [name |-> "role-check", roles |-> roles]
Binding(name) == [name |-> name, roles |-> <<>>]

\* The update route with workflow-status bound ahead of the other two.
Routes_WorkflowFirst(op) ==
  CASE op = "create" ->
         <<RoleCheckBinding(<<"reporter", "reviewer", "editor", "admin">>)>>
    [] op = "update" ->
         <<Binding("workflow-status"),
           RoleCheckBinding(<<"reporter", "reviewer", "editor", "admin">>),
           Binding("is-owner-or-editor")>>
    [] op = "delete" ->
         <<RoleCheckBinding(<<"editor", "admin">>), Binding("is-owner-or-editor")>>
    [] op = "submit-for-review" ->
         <<RoleCheckBinding(<<"reporter", "editor", "admin">>),
           Binding("is-owner-or-editor")>>
    [] op = "approve" -> <<RoleCheckBinding(<<"reviewer", "editor", "admin">>)>>
    [] op = "reject" -> <<RoleCheckBinding(<<"reviewer", "editor", "admin">>)>>
    [] op = "publish" -> <<Binding("can-publish")>>
    [] op = "unpublish" -> <<Binding("can-publish")>>

\* config.policies of each authenticated article route that writes.
Routes(op) ==
  CASE op = "create" ->
         <<RoleCheckBinding(<<"reporter", "reviewer", "editor", "admin">>)>>
    [] op = "update" ->
         <<RoleCheckBinding(<<"reporter", "reviewer", "editor", "admin">>),
           Binding("is-owner-or-editor"), Binding("workflow-status")>>
    [] op = "delete" ->
         <<RoleCheckBinding(<<"editor", "admin">>), Binding("is-owner-or-editor")>>
    [] op = "submit-for-review" ->
         <<RoleCheckBinding(<<"reporter", "editor", "admin">>),
           Binding("is-owner-or-editor")>>
    [] op = "approve" -> <<RoleCheckBinding(<<"reviewer", "editor", "admin">>)>>
    [] op = "reject" -> <<RoleCheckBinding(<<"reviewer", "editor", "admin">>)>>
    [] op = "publish" -> <<Binding("can-publish")>>
    [] op = "unpublish" -> <<Binding("can-publish")>>

\* One bound policy applied to the request.
Policy(binding, ctx, store) ==
  CASE binding.name = "role-check" -> RoleCheck(ctx, binding.roles)
    [] binding.name = "cms-role" -> CmsRole(ctx)
    [] binding.name = "is-owner-or-editor" -> IsOwnerOrEditor(ctx, store)
    [] binding.name = "workflow-status" -> WorkflowStatus(ctx, store)
    [] binding.name = "can-publish" -> CanPublish(ctx)

\* The host's evaluation of a route's policies: in order, stopping at the
\* first that refuses.  `by` names the policy that decided, `evaluated` counts
\* the policies run, `reads` sums their store reads.
RECURSIVE RunChainFrom(_, _, _, _, _)
RunChainFrom(chain, i, ctx, store, reads) ==
  IF i > Len(chain)
    THEN [allowed |-> TRUE, reason |-> "None", msg |-> "", reads |-> reads,
          by |-> "chain", evaluated |-> Len(chain)]
    ELSE LET d == Policy(chain[i], ctx, store)
         IN  IF ~d.allowed
               THEN [allowed |-> FALSE, reason |-> d.reason, msg |-> d.msg,
                     reads |-> reads + d.reads, by |-> chain[i].name,
                     evaluated |-> i]
               ELSE RunChainFrom(chain, i + 1, ctx, store, reads + d.reads)

RunChain(op, ctx, store) == RunChainFrom(Routes(op), 1, ctx, store, 0)

\* ------------------------------------------------------------- controller

\* publishedAt as the write keeps it for a status.
PublishedAtFor(status) == IF status = "published" THEN "ts" ELSE Null

Reviewed(by) == [notes |-> "notes", by |-> by, at |-> "ts"]

\* The status written without publishedAt.
WithStatus_StatusOnly(a, status) == [a EXCEPT !.workflowStatus = status]

\* A write of the status, publishedAt kept in step with it.
WithStatus(a, status) ==
  [a EXCEPT !.workflowStatus = status, !.publishedAt = PublishedAtFor(status)]

WithReview(a, by) ==
  [a EXCEPT !.reviewNotes = "notes", !.reviewedBy = by, !.reviewedAt = "ts"]

FreeIds(store) == {i \in ArticleIds : ~store[i].exists}

NextId(store) == CHOOSE i \in FreeIds(store) : \A j \in FreeIds(store) : i <= j

\* article.create: a new row owned by the caller, in the requested status or
\* the schema's default; the schema's enumeration refuses any other value.
ControllerCreate(ctx, store) ==
  IF FreeIds(store) = {} \/ ctx.store # "ok" THEN store
  ELSE IF ctx.status # Undefined /\ ctx.status \notin Statuses THEN store
  ELSE LET status == IF ctx.status = Undefined THEN "draft" ELSE ctx.status
       IN  [store EXCEPT ![NextId(store)] =
              Article(status, PublishedAtFor(status), ctx.user.id, NotReviewed, Null)]

\* article.update: the status, when the body carries one, with publishedAt.
ControllerUpdate(ctx, store) ==
  IF ctx.status \in Statuses /\ ctx.status # store[ctx.id].workflowStatus
    THEN [store EXCEPT ![ctx.id] = WithStatus(@, ctx.status)]
    ELSE store

ControllerDelete(ctx, store) == [store EXCEPT ![ctx.id] = Absent]

\* article.submitForReview: draft -> review.
ControllerSubmitForReview(ctx, store) ==
  IF store[ctx.id].workflowStatus = "draft"
    THEN [store EXCEPT ![ctx.id] =
            [WithStatus(@, "review") EXCEPT !.submittedForReviewAt = "ts"]]
    ELSE store

\* An approval that also publishes the article.
ControllerApprove_Publishes(ctx, store) ==
  IF store[ctx.id].workflowStatus = "review"
    THEN [store EXCEPT ![ctx.id] = WithReview(WithStatus(@, "published"), ctx.user.id)]
    ELSE store

\* article.approve: the review fields only; the status stays review.
ControllerApprove(ctx, store) ==
  IF store[ctx.id].workflowStatus = "review"
    THEN [store EXCEPT ![ctx.id] = WithReview(@, ctx.user.id)]
    ELSE store

\* article.reject: review -> draft, with the review fields.
ControllerReject(ctx, store) ==
  IF store[ctx.id].workflowStatus = "review"
    THEN [store EXCEPT ![ctx.id] = WithReview(WithStatus(@, "draft"), ctx.user.id)]
    ELSE store

\* article.publish: status published and publishedAt set, in one write.
ControllerPublish(ctx, store) ==
  [store EXCEPT ![ctx.id] = WithStatus(@, "published")]

\* article.unpublish: published -> draft and publishedAt cleared.
ControllerUnpublish(ctx, store) ==
  IF store[ctx.id].workflowStatus = "published"
    THEN [store EXCEPT ![ctx.id] = WithStatus(@, "draft")]
    ELSE store

\* The handler behind a route; every handler but create answers 404 for a
\* missing row and writes nothing while the store is failing.
Controller(op, ctx, store) ==
  IF op = "create" THEN ControllerCreate(ctx, store)
  ELSE IF ctx.store # "ok" \/ ~store[ctx.id].exists THEN store
  ELSE CASE op = "update" -> ControllerUpdate(ctx, store)
         [] op = "delete" -> ControllerDelete(ctx, store)
         [] op = "submit-for-review" -> ControllerSubmitForReview(ctx, store)
         [] op = "approve" -> ControllerApprove(ctx, store)
         [] op = "reject" -> ControllerReject(ctx, store)
         [] op = "publish" -> ControllerPublish(ctx, store)
         [] op = "unpublish" -> ControllerUnpublish(ctx, store)

\* --------------------------------------------------------------- callers

Principal(id, type, name) ==
  [present |-> TRUE, id |-> id, type |-> type, name |-> name]

reporterA == Principal(1, "reporter", "Reporter")
reporterB == Principal(2, "reporter", "Reporter")
reviewer == Principal(3, "reviewer", Undefined)
editor == Principal(4, "editor", "Editor")
admin == Principal(5, "admin", Undefined)
reader == Principal(6, "reader", Undefined)

\* Who calls the routes: the six accounts with a session, and a service
\* holding an API token (no user in the request state).
Callers ==
  [strategy : {"users-permissions"},
   user : {reporterA, reporterB, reviewer, editor, admin, reader}]
  \cup {[strategy |-> "api-token", user |-> NoUser]}

\* The routes are run against a store that answers.
RouteOutcomes == {"ok"}

Request(caller, id, status, outcome) ==
  [strategy |-> caller.strategy, user |-> caller.user, status |-> status,
   id |-> id, store |-> outcome]

\* ------------------------------------------------ bootstrap (src/index.ts)

MaxRuns == 2

\* strapi.contentTypes in key order: uid and options.draftAndPublish.
ContentType(uid, dp) == [uid |-> uid, draftAndPublish |-> dp]

contentTypes ==
  << ContentType("plugin::users-permissions.user", FALSE),
     ContentType("api::article.article", TRUE),
     ContentType("api::category.category", FALSE) >>

\* uid.startsWith('api::') over the uids the model holds.
StartsWithApi(uid) ==
  uid \in {"api::article.article", "api::category.category"}

apiContentTypes == SelectSeq(contentTypes, LAMBDA t : StartsWithApi(t.uid))

publicActions == <<"find", "findOne">>

authActions == <<"find", "findOne", "create", "update", "delete", "publish">>

\* `${uid}.${action}`
permissionString(uid, act) == uid \o "." \o act

\* The iterations of `for uid of types { for action of actions {...} }`, in
\* the order the loops make them.
LoopOver(types, actions) ==
  [k \in 1..(Len(types) * Len(actions)) |->
     [type |-> types[((k - 1) \div Len(actions)) + 1],
      act |-> actions[((k - 1) % Len(actions)) + 1]]]

\* Rows of plugin::users-permissions.role and .permission.
Role(id, type) == [id |-> id, type |-> type]

PermissionRow(roleId, act) == [action |-> act, role |-> roleId]

publicRoleRow == Role(1, "public")

authRoleRow == Role(2, "authenticated")

editorRoleRow == Role(3, "editor")

\* The role tables a start may find: either seeded role may be missing.
RoleTables ==
  {S \cup {editorRoleRow} : S \in SUBSET {publicRoleRow, authRoleRow}}

\* Some permissions of both roles already there.
PartlySeeded ==
  << PermissionRow(1, "api::article.article.find"),
     PermissionRow(2, "api::article.article.publish"),
     PermissionRow(2, "api::category.category.update") >>

\* Rows the seeding has no business with: another role's permission, actions
\* outside the role's list, and a row held twice.
Unrelated ==
  << PermissionRow(3, "api::article.article.find"),
     PermissionRow(1, "api::article.article.delete"),
     PermissionRow(2, "api::category.category.publish"),
     PermissionRow(1, "api::category.category.findOne"),
     PermissionRow(1, "api::category.category.findOne") >>

PermissionTables ==
  {<<>>, PartlySeeded, Unrelated, Unrelated \o PartlySeeded}

\* strapi.db.query(role).findOne({ where: { type } }): no row or one row.
getRole(type) == {r \in roleRows : r.type = type}

RoleId(type) == (CHOOSE r \in getRole(type) : TRUE).id

\* strapi.db.query(permission).findMany({ where: { role: roleId } })
findPermissions(roleId) == SelectSeq(permissions, LAMBDA p : p.role = roleId)

\* new Set(perms.map((p) => p.action))
ActionSet(perms) == {perms[i].action : i \in 1..Len(perms)}

\* strapi.db.query(permission).create({ data: { action, role: roleId } })
createPermission(roleId, act) == Append(permissions, PermissionRow(roleId, act))

\* The lookup left out: every wanted permission is taken to be missing.
Missing_NoLookup(heldActions, permission) == TRUE

\* !publicPermActions.has(permissionString), !authPermActions.has(...)
Missing(heldActions, permission) == permission \notin heldActions

\* No run of bootstrap under way and none made yet. `created` counts the
\* createPermission calls of the current run; prev and prevCreated keep the
\* outcome and the count of the run before it.
IdleBoot ==
  [pc |-> "idle", run |-> 0, todo |-> <<>>, held |-> {}, created |-> 0,
   outcome |-> "none", prev |-> "none", prevCreated |-> 0]

NotBooting ==
  /\ roleRows = {}
  /\ permissions = <<>>
  /\ boot = IdleBoot

\* ------------------------------------------------------------ state machine

NoRequest ==
  [op |-> "none", ctx |-> Request([strategy |-> "api-token", user |-> NoUser],
                                  NoId, Undefined, "ok"),
   config |-> <<>>, result |-> Allow(0)]

EmptyStore == [i \in ArticleIds |-> Absent]

\* Two requests may be under way at once; a slot holds one of them between
\* its policies and its handler, with the status the workflow check read.
Slots == {"first", "second"}

IdleSlot ==
  [pc |-> "idle", ctx |-> NoRequest.ctx, seen |-> Null,
   result |-> [allowed |-> FALSE, reason |-> "None", msg |-> "", reads |-> 0,
               by |-> "chain", evaluated |-> 0]]

NoneInFlight == [s \in Slots |-> IdleSlot]

Init ==
  /\ articles = EmptyStore
  /\ last = NoRequest
  /\ inflight = NoneInFlight
  /\ NotBooting

\* A request to a route: the chain decides (Answer), then the handler
\* writes when the chain allowed (Written).
Answer(op, ctx) ==
  [op |-> op, ctx |-> ctx, config |-> <<>>, result |-> RunChain(op, ctx, articles)]

\* The handler run whatever the chain answered.
Written_BeforeChain(op, ctx) == Controller(op, ctx, articles)

Written(op, ctx) ==
  IF RunChain(op, ctx, articles).allowed THEN Controller(op, ctx, articles)
  ELSE articles

Create ==
  \E c \in Callers, st \in RequestedStatuses, o \in RouteOutcomes :
    LET ctx == Request(c, NoId, st, o)
    IN  /\ last' = Answer("create", ctx)
        /\ articles' = Written("create", ctx)
        /\ UNCHANGED <<inflight, bootVars>>

Update ==
  \E c \in Callers, id \in ArticleIds, st \in RequestedStatuses, o \in RouteOutcomes :
    LET ctx == Request(c, id, st, o)
    IN  /\ last' = Answer("update", ctx)
        /\ articles' = Written("update", ctx)
        /\ UNCHANGED <<inflight, bootVars>>

Delete ==
  \E c \in Callers, id \in ArticleIds, o \in RouteOutcomes :
    LET ctx == Request(c, id, Undefined, o)
    IN  /\ last' = Answer("delete", ctx)
        /\ articles' = Written("delete", ctx)
        /\ UNCHANGED <<inflight, bootVars>>

SubmitForReview ==
  \E c \in Callers, id \in ArticleIds, o \in RouteOutcomes :
    LET ctx == Request(c, id, Undefined, o)
    IN  /\ last' = Answer("submit-for-review", ctx)
        /\ articles' = Written("submit-for-review", ctx)
        /\ UNCHANGED <<inflight, bootVars>>

Approve ==
  \E c \in Callers, id \in ArticleIds, o \in RouteOutcomes :
    LET ctx == Request(c, id, Undefined, o)
    IN  /\ last' = Answer("approve", ctx)
        /\ articles' = Written("approve", ctx)
        /\ UNCHANGED <<inflight, bootVars>>

Reject ==
  \E c \in Callers, id \in ArticleIds, o \in RouteOutcomes :
    LET ctx == Request(c, id, Undefined, o)
    IN  /\ last' = Answer("reject", ctx)
        /\ articles' = Written("reject", ctx)
        /\ UNCHANGED <<inflight, bootVars>>

Publish ==
  \E c \in Callers, id \in ArticleIds, o \in RouteOutcomes :
    LET ctx == Request(c, id, Undefined, o)
    IN  /\ last' = Answer("publish", ctx)
        /\ articles' = Written("publish", ctx)
        /\ UNCHANGED <<inflight, bootVars>>

Unpublish ==
  \E c \in Callers, id \in ArticleIds, o \in RouteOutcomes :
    LET ctx == Request(c, id, Undefined, o)
    IN  /\ last' = Answer("unpublish", ctx)
        /\ articles' = Written("unpublish", ctx)
        /\ UNCHANGED <<inflight, bootVars>>

Next ==
  \/ Create
  \/ Update
  \/ Delete
  \/ SubmitForReview
  \/ Approve
  \/ Reject
  \/ Publish
  \/ Unpublish

Spec == Init /\ [][Next]_vars

\* ------------------------------------------------- the policies as functions

\* One article slot filled with any row the store may hold, the others empty.
PolicyStores ==
  {EmptyStore} \cup
  {[i \in ArticleIds |-> IF i = k THEN a ELSE Absent] :
     k \in ArticleIds, a \in StoredArticles}

InitPolicy ==
  /\ articles \in PolicyStores
  /\ last = NoRequest
  /\ inflight = NoneInFlight
  /\ NotBooting

\* One policy is applied once (last.op = "none"), to the store as drawn.
Evaluated(policy, ctx, config, result) ==
  [op |-> policy, ctx |-> ctx, config |-> config, result |-> result]

EvalRoleCheck ==
  /\ last.op = "none"
  /\ \E ctx \in Contexts, roles \in RoleConfigs :
       last' = Evaluated("role-check", ctx, roles, RoleCheck(ctx, roles))
  /\ UNCHANGED <<articles, inflight, bootVars>>

EvalCmsRole ==
  /\ last.op = "none"
  /\ \E ctx \in Contexts :
       last' = Evaluated("cms-role", ctx, <<>>, CmsRole(ctx))
  /\ UNCHANGED <<articles, inflight, bootVars>>

EvalIsOwnerOrEditor ==
  /\ last.op = "none"
  /\ \E ctx \in Contexts :
       last' = Evaluated("is-owner-or-editor", ctx, <<>>, IsOwnerOrEditor(ctx, articles))
  /\ UNCHANGED <<articles, inflight, bootVars>>

EvalWorkflowStatus ==
  /\ last.op = "none"
  /\ \E ctx \in Contexts :
       last' = Evaluated("workflow-status", ctx, <<>>, WorkflowStatus(ctx, articles))
  /\ UNCHANGED <<articles, inflight, bootVars>>

EvalCanPublish ==
  /\ last.op = "none"
  /\ \E ctx \in Contexts :
       last' = Evaluated("can-publish", ctx, <<>>, CanPublish(ctx))
  /\ UNCHANGED <<articles, inflight, bootVars>>

NextPolicy ==
  \/ EvalRoleCheck
  \/ EvalCmsRole
  \/ EvalIsOwnerOrEditor
  \/ EvalWorkflowStatus
  \/ EvalCanPublish

SpecPolicy == InitPolicy /\ [][NextPolicy]_vars

\* --------------------------------------------- two update requests at once

\* One article, created by reporter A or by the reviewer, in any of the
\* three states.
RaceStores ==
  {[i \in ArticleIds |->
      IF i = 1 THEN Article(st, PublishedAtFor(st), c, NotReviewed, Null)
      ELSE Absent] : st \in Statuses, c \in {1, 3}}

InitRace ==
  /\ articles \in RaceStores
  /\ last = NoRequest
  /\ inflight = NoneInFlight
  /\ NotBooting

\* The policies of PUT /articles/:id run for a request, against the store as
\* it is now; the handler has not run yet.
CheckUpdate(s) ==
  /\ inflight[s].pc = "idle"
  /\ \E c \in Callers, id \in ArticleIds, st \in Statuses \cup {Undefined} :
       LET ctx == Request(c, id, st, "ok")
       IN  inflight' = [inflight EXCEPT ![s] =
             [pc |-> "checked", ctx |-> ctx,
              seen |-> articles[id].workflowStatus,
              result |-> RunChain("update", ctx, articles)]]
  /\ UNCHANGED <<articles, last, bootVars>>

\* The handler of a request whose policies have run: it writes, when they
\* allowed, to the store as it is by then, and the request is answered.
WriteUpdate(s) ==
  /\ inflight[s].pc = "checked"
  /\ articles' = IF inflight[s].result.allowed
                   THEN Controller("update", inflight[s].ctx, articles)
                   ELSE articles
  /\ last' = [op |-> "update", ctx |-> inflight[s].ctx, config |-> <<>>,
              result |-> inflight[s].result]
  /\ inflight' = [inflight EXCEPT ![s] = IdleSlot]
  /\ UNCHANGED bootVars

NextRace ==
  \/ \E s \in Slots : CheckUpdate(s)
  \/ \E s \in Slots : WriteUpdate(s)

SpecRace == InitRace /\ [][NextRace]_vars

\* ----------------------------------------------------- bootstrap as steps

InitBootstrap ==
  /\ articles = EmptyStore
  /\ last = NoRequest
  /\ inflight = NoneInFlight
  /\ roleRows \in RoleTables
  /\ permissions \in PermissionTables
  /\ boot = IdleBoot

RolesFound == getRole("public") # {} /\ getRole("authenticated") # {}

\* A run begins: the run before it becomes the previous one.
Started ==
  [boot EXCEPT !.run = @ + 1, !.created = 0, !.prev = boot.outcome,
               !.prevCreated = boot.created]

Ended(b, outcome) ==
  [b EXCEPT !.pc = "idle", !.todo = <<>>, !.held = {}, !.outcome = outcome]

\* Lines 42-48: a role is missing, the run warns and returns.
SkipSeeding ==
  /\ boot.pc = "idle" /\ boot.run < MaxRuns
  /\ ~RolesFound
  /\ boot' = Ended(Started, "skipped")
  /\ UNCHANGED <<articles, last, inflight, roleRows, permissions>>

\* Lines 42-65: both roles found, the public role's permissions read.
FindPublicPermissions ==
  /\ boot.pc = "idle" /\ boot.run < MaxRuns
  /\ RolesFound
  /\ boot' = [Started EXCEPT
                !.pc = "public", !.outcome = "running",
                !.todo = LoopOver(apiContentTypes, publicActions),
                !.held = ActionSet(findPermissions(RoleId("public")))]
  /\ UNCHANGED <<articles, last, inflight, roleRows, permissions>>

\* Lines 67-75: one iteration of the public loop.
SeedPublic ==
  /\ boot.pc = "public" /\ boot.todo # <<>>
  /\ LET item == Head(boot.todo)
         wanted == permissionString(item.type.uid, item.act)
     IN IF Missing(boot.held, wanted)
          THEN /\ permissions' = createPermission(RoleId("public"), wanted)
               /\ boot' = [boot EXCEPT !.todo = Tail(@), !.created = @ + 1]
          ELSE /\ permissions' = permissions
               /\ boot' = [boot EXCEPT !.todo = Tail(@)]
  /\ UNCHANGED <<articles, last, inflight, roleRows>>

\* Lines 78-79: the authenticated role's permissions read.
FindAuthPermissions ==
  /\ boot.pc = "public" /\ boot.todo = <<>>
  /\ boot' = [boot EXCEPT
                !.pc = "authenticated",
                !.todo = LoopOver(apiContentTypes, authActions),
                !.held = ActionSet(findPermissions(RoleId("authenticated")))]
  /\ UNCHANGED <<articles, last, inflight, roleRows, permissions>>

\* Lines 81-95: one iteration of the authenticated loop; 'publish' is passed
\* over for a type without draftAndPublish.
SeedAuthenticated ==
  /\ boot.pc = "authenticated" /\ boot.todo # <<>>
  /\ LET item == Head(boot.todo)
         wanted == permissionString(item.type.uid, item.act)
     IN IF item.act = "publish" /\ ~item.type.draftAndPublish
          THEN /\ permissions' = permissions
               /\ boot' = [boot EXCEPT !.todo = Tail(@)]
        ELSE IF Missing(boot.held, wanted)
          THEN /\ permissions' =
                    createPermission(RoleId("authenticated"), wanted)
               /\ boot' = [boot EXCEPT !.todo = Tail(@), !.created = @ + 1]
          ELSE /\ permissions' = permissions
               /\ boot' = [boot EXCEPT !.todo = Tail(@)]
  /\ UNCHANGED <<articles, last, inflight, roleRows>>

\* Line 97: both loops done.
SeedingComplete ==
  /\ boot.pc = "authenticated" /\ boot.todo = <<>>
  /\ boot' = Ended(boot, "complete")
  /\ UNCHANGED <<articles, last, inflight, roleRows, permissions>>

\* Lines 99-101: a query of the run throws (getRole, findMany or create);
\* the catch logs the error and the run is over.
CatchError ==
  /\ \/ /\ boot.pc = "idle" /\ boot.run < MaxRuns
        /\ boot' = Ended(Started, "error")
     \/ /\ boot.pc # "idle"
        /\ boot' = Ended(boot, "error")
  /\ UNCHANGED <<articles, last, inflight, roleRows, permissions>>

NextBootstrap ==
  \/ SkipSeeding
  \/ FindPublicPermissions
  \/ SeedPublic
  \/ FindAuthPermissions
  \/ SeedAuthenticated
  \/ SeedingComplete
  \/ CatchError

SpecBootstrap == InitBootstrap /\ [][NextBootstrap]_vars


\* ================================================================= claims

WasPolicy(name) == last.op = name
NonBypassed == last.ctx.strategy # "api-token"
Authenticated == last.ctx.user.present /\ last.ctx.user.id # NoId
TargetArticle == articles[last.ctx.id]
TargetReadable ==
  last.ctx.id # NoId /\ last.ctx.store = "ok" /\ TargetArticle.exists

\* The transition table as the specification prints it.
SpecTable(role, current) ==
  CASE role = "reporter" /\ current = "draft" -> {"review"}
    [] role = "reviewer" /\ current = "draft" -> {"review"}
    [] role = "reviewer" /\ current = "review" -> {"draft"}
    [] role = "editor" /\ current = "draft" -> {"review", "published"}
    [] role = "editor" /\ current = "review" -> {"draft", "published"}
    [] role = "editor" /\ current = "published" -> {"draft"}
    [] OTHER -> {}

\* C1: for a non-bypassed authenticated principal of role reader, reporter,
\* reviewer or editor and an existing article in state S, a request for a
\* status S' # S passes the workflow check iff S' is in the table's set for
\* (role, S); every other pair is denied with InvalidTransition.
C1_TransitionTable ==
  ( /\ WasPolicy("workflow-status") /\ NonBypassed /\ Authenticated
    /\ last.ctx.user.type \in {"reader", "reporter", "reviewer", "editor"}
    /\ TargetReadable
    /\ TargetArticle.workflowStatus \in Statuses
    /\ last.ctx.status \in Statuses
    /\ last.ctx.status # TargetArticle.workflowStatus )
  => /\ last.result.allowed <=>
          last.ctx.status \in SpecTable(last.ctx.user.type, TargetArticle.workflowStatus)
     /\ ~last.result.allowed => last.result.reason = "InvalidTransition"

C1_Witness ==
  /\ WasPolicy("workflow-status") /\ NonBypassed /\ Authenticated
  /\ last.ctx.user.type = "reviewer"
  /\ TargetReadable
  /\ TargetArticle.workflowStatus = "published"
  /\ last.ctx.status = "draft"
  /\ ~last.result.allowed /\ last.result.reason = "InvalidTransition"

C3_ServiceCredentialBypass ==
  ( /\ last.op \in {"role-check", "cms-role", "is-owner-or-editor",
                    "workflow-status", "can-publish"}
    /\ last.ctx.strategy = "api-token" )
  => last.result.allowed /\ last.result.reads = 0

C3_Witness ==
  /\ WasPolicy("is-owner-or-editor")
  /\ last.ctx.strategy = "api-token"
  /\ last.ctx.user.present /\ last.ctx.user.type = "reader"
  /\ last.ctx.id # NoId /\ TargetArticle.exists
  /\ TargetArticle.createdBy \notin {NoId, last.ctx.user.id}
  /\ last.result.allowed

\* C4: ownership-or-editor, non-bypassed authenticated principal, existing
\* article with a recorded creator: an editor passes whoever the creator is;
\* a reader, reporter, reviewer or role-less principal passes iff its id is
\* the article's creator, and is denied Forbidden otherwise.
C4_OwnershipOrEditor ==
  ( /\ WasPolicy("is-owner-or-editor") /\ NonBypassed /\ Authenticated
    /\ TargetReadable /\ TargetArticle.createdBy # NoId )
  => /\ last.ctx.user.type = "editor" => last.result.allowed
     /\ ( /\ last.ctx.user.type \in {Undefined, "reader", "reporter", "reviewer"}
          /\ last.ctx.user.name \in {Undefined, "Reporter"} )
        => /\ last.result.allowed <=> last.ctx.user.id = TargetArticle.createdBy
           /\ ~last.result.allowed => last.result.reason = "Forbidden"

C4_Witness ==
  /\ WasPolicy("is-owner-or-editor") /\ NonBypassed
  /\ last.ctx.user.type = "reporter" /\ last.ctx.user.id = 2
  /\ TargetReadable /\ TargetArticle.createdBy = 1
  /\ ~last.result.allowed /\ last.result.reason = "Forbidden"

\* C5: publish-gate, non-bypassed authenticated principal: reader, reporter,
\* reviewer, unknown and missing roles are denied Forbidden, an editor is
\* allowed, and the article is never read (the answer is the same whatever
\* the store holds).
C5_PublishGate ==
  ( WasPolicy("can-publish") /\ NonBypassed /\ Authenticated )
  => /\ ( /\ last.ctx.user.type \in
               {Undefined, "reader", "reporter", "reviewer", "authenticated"}
          /\ last.ctx.user.name \in {Undefined, "Reporter"} )
        => ~last.result.allowed /\ last.result.reason = "Forbidden"
     /\ last.ctx.user.type = "editor" => last.result.allowed
     /\ last.result.reads = 0

C5_Witness ==
  /\ WasPolicy("can-publish") /\ NonBypassed /\ Authenticated
  /\ last.ctx.user.type = "reviewer"
  /\ last.ctx.id # NoId /\ TargetArticle.exists
  /\ TargetArticle.workflowStatus = "review"
  /\ ~last.result.allowed /\ last.result.reason = "Forbidden"

\* C6: a non-bypassed authenticated admin passes the ownership-or-editor
\* check for an article somebody else created, and passes the publish-gate.
C6_AdminIsSupersetOfEditor ==
  /\ ( /\ WasPolicy("is-owner-or-editor") /\ NonBypassed /\ Authenticated
       /\ last.ctx.user.type = "admin"
       /\ TargetReadable
       /\ TargetArticle.createdBy \notin {NoId, last.ctx.user.id} )
     => last.result.allowed
  /\ ( /\ WasPolicy("can-publish") /\ NonBypassed /\ Authenticated
       /\ last.ctx.user.type = "admin" )
     => last.result.allowed

\* C7: workflow check on a request without a resource id, non-bypassed
\* authenticated principal: a reporter is denied every requested status but
\* draft; a reviewer and a reader are denied every creation request; an
\* editor or admin is allowed each of the three statuses.
C7_InitialStatusRule ==
  ( /\ WasPolicy("workflow-status") /\ NonBypassed /\ Authenticated
    /\ last.ctx.id = NoId )
  => /\ ( /\ last.ctx.user.type = "reporter"
          /\ last.ctx.status \notin {Undefined, "draft"} )
        => ~last.result.allowed
     /\ last.ctx.user.type \in {"reviewer", "reader"} => ~last.result.allowed
     /\ ( /\ last.ctx.user.type \in {"editor", "admin"}
          /\ last.ctx.status \in Statuses )
        => last.result.allowed

\* C8: the chain bound to the create route refuses a reporter's create
\* request asking for review or published, and any create request of a
\* reviewer, so that no such article is written.
C8_CreateChainAppliesInitialStatusRule ==
  ( /\ last.op = "create" /\ NonBypassed
    /\ \/ /\ last.ctx.user.type = "reporter"
          /\ last.ctx.status \in {"review", "published"}
       \/ last.ctx.user.type = "reviewer" )
  => ~last.result.allowed

\* C9: no step taken by a non-bypassed reader, reporter or reviewer makes an
\* article published or creates one as published: such a step is an editor's,
\* an admin's or a service credential's.
C9_OnlyEditorsPublish ==
  [][ ( \E i \in ArticleIds :
          /\ articles'[i].workflowStatus = "published"
          /\ articles[i].workflowStatus # "published" )
      => \/ last'.ctx.strategy = "api-token"
         \/ last'.ctx.user.type \in {"editor", "admin"} ]_vars

C11_ChainOrderShortCircuit ==
  [][ last'.op = "update" =>
        LET ctx == last'.ctx
            res == last'.result
            r1 == RoleCheck(ctx, <<"reporter", "reviewer", "editor", "admin">>)
            r2 == IsOwnerOrEditor(ctx, articles)
            r3 == WorkflowStatus(ctx, articles)
        IN  /\ res.allowed <=> (r1.allowed /\ r2.allowed /\ r3.allowed)
            /\ ~r1.allowed =>
                  /\ res.by = "role-check" /\ res.reason = r1.reason
                  /\ res.evaluated = 1 /\ res.reads = 0
            /\ (r1.allowed /\ ~r2.allowed) =>
                  /\ res.by = "is-owner-or-editor" /\ res.reason = r2.reason
                  /\ res.evaluated = 2 /\ res.reads = r2.reads
            /\ (r1.allowed /\ r2.allowed /\ ~r3.allowed) =>
                  /\ res.by = "workflow-status" /\ res.reason = r3.reason
                  /\ res.evaluated = 3 /\ res.reads = r2.reads + r3.reads ]_vars

C11_Witness ==
  /\ last.op = "update" /\ NonBypassed
  /\ last.ctx.user.type = "reader"
  /\ TargetArticle.exists /\ TargetArticle.workflowStatus = "draft"
  /\ last.ctx.status = "published"
  /\ ~last.result.allowed /\ last.result.by = "role-check"
  /\ last.result.evaluated = 1 /\ last.result.reads = 0

\* C12: a request that any policy of its chain refuses leaves every article
\* exactly as it was: the write happens only after the whole chain allowed.
C12_DeniedRequestWritesNothing ==
  [][ (last'.op # "none" /\ ~last'.result.allowed) => articles' = articles ]_vars

C12_Witness ==
  /\ last.op = "update" /\ NonBypassed
  /\ last.ctx.user = reporterB
  /\ TargetArticle.exists /\ TargetArticle.createdBy = 1
  /\ TargetArticle.workflowStatus = "draft" /\ last.ctx.status = "review"
  /\ ~last.result.allowed /\ last.result.by = "is-owner-or-editor"

\* C13: each step of the editorial lifecycle is allowed from the state the
\* step before it leaves: reporter A creates (draft), A submits its draft
\* (review), a reviewer rejects (draft, notes set), A resubmits, an editor
\* publishes (published, publishedAt set), the editor unpublishes (draft,
\* publishedAt cleared); A asking for published on its article under review
\* is refused with InvalidTransition and the article stays as it was.
C13_EditorialLifecycle ==
  [][ \A i \in ArticleIds :
        LET a == articles[i]
            b == articles'[i]
            req == last'
            onIt == req.ctx.id = i /\ a.exists
        IN  /\ ( /\ req.op = "create" /\ req.ctx.user = reporterA
                 /\ req.ctx.status \in {Undefined, "draft"}
                 /\ FreeIds(articles) # {} /\ i = NextId(articles) )
               => /\ req.result.allowed /\ b.exists
                  /\ b.workflowStatus = "draft" /\ b.createdBy = 1
            /\ ( /\ req.op = "submit-for-review" /\ req.ctx.user = reporterA
                 /\ onIt /\ a.createdBy = 1 /\ a.workflowStatus = "draft" )
               => req.result.allowed /\ b.workflowStatus = "review"
            /\ ( /\ req.op = "reject" /\ req.ctx.user = reviewer
                 /\ onIt /\ a.workflowStatus = "review" )
               => /\ req.result.allowed /\ b.workflowStatus = "draft"
                  /\ b.reviewNotes # Null
            /\ ( /\ req.op = "publish" /\ req.ctx.user = editor
                 /\ onIt /\ a.workflowStatus = "review" )
               => /\ req.result.allowed /\ b.workflowStatus = "published"
                  /\ b.publishedAt # Null
            /\ ( /\ req.op = "unpublish" /\ req.ctx.user = editor
                 /\ onIt /\ a.workflowStatus = "published" )
               => /\ req.result.allowed /\ b.workflowStatus = "draft"
                  /\ b.publishedAt = Null
            /\ ( /\ req.op = "update" /\ req.ctx.user = reporterA
                 /\ req.ctx.status = "published"
                 /\ onIt /\ a.createdBy = 1 /\ a.workflowStatus = "review" )
               => /\ ~req.result.allowed
                  /\ req.result.reason = "InvalidTransition" /\ b = a ]_vars

\* The end of the lifecycle: A's article, submitted, reviewed by the
\* reviewer, back in draft after the editor's unpublish.
C13_Witness ==
  /\ last.op = "unpublish" /\ last.ctx.user = editor /\ last.result.allowed
  /\ TargetArticle.exists /\ TargetArticle.createdBy = 1
  /\ TargetArticle.workflowStatus = "draft" /\ TargetArticle.publishedAt = Null
  /\ TargetArticle.reviewedBy = 3 /\ TargetArticle.reviewNotes # Null
  /\ TargetArticle.submittedForReviewAt # Null

\* The principal's two role fields carry no surrounding whitespace.
RoleFieldsUnpadded ==
  /\ Trim(last.ctx.user.type) = last.ctx.user.type
  /\ Trim(last.ctx.user.name) = last.ctx.user.name

HasSomeRole ==
  LowerOrEmpty(last.ctx.user.type) # "" \/ LowerOrEmpty(last.ctx.user.name) # ""

\* The role type or the role name is one of the configured roles, letter
\* case and the configuration's padding set aside.
IsMemberOfAllowed ==
  LET allowed == {Trim(ToLowerCase(r)) : r \in SeqRange(last.config)}
  IN  \/ LowerOrEmpty(last.ctx.user.type) \in allowed
      \/ LowerOrEmpty(last.ctx.user.name) \in allowed

\* The refusal that lists the roles the route requires.
NamesRequiredRoles(message) == message = "Access denied. Required roles"

\* C14 (as stated): role-check on a non-bypassed request refuses with
\* Unauthenticated when the principal has no id, else with Misconfigured when
\* the configured list is empty, else passes iff role type or role name is
\* configured, and in every remaining case refuses with Forbidden in a
\* message naming the required roles.
C14_RoleGatePrecedence ==
  ( WasPolicy("role-check") /\ NonBypassed /\ RoleFieldsUnpadded )
  => IF ~Authenticated
       THEN ~last.result.allowed /\ last.result.reason = "Unauthenticated"
     ELSE IF last.config = <<>>
       THEN ~last.result.allowed /\ last.result.reason = "Misconfigured"
     ELSE IF IsMemberOfAllowed THEN last.result.allowed
     ELSE /\ ~last.result.allowed /\ last.result.reason = "Forbidden"
          /\ NamesRequiredRoles(last.result.msg)

\* C14 (amended): the same precedence; the Forbidden message names the
\* required roles exactly when the principal has a role, and a principal
\* without any role is told that no role is assigned to its account.
C14_RoleGatePrecedence_Amended ==
  ( WasPolicy("role-check") /\ NonBypassed /\ RoleFieldsUnpadded )
  => IF ~Authenticated
       THEN ~last.result.allowed /\ last.result.reason = "Unauthenticated"
     ELSE IF last.config = <<>>
       THEN ~last.result.allowed /\ last.result.reason = "Misconfigured"
     ELSE IF IsMemberOfAllowed THEN last.result.allowed
     ELSE /\ ~last.result.allowed /\ last.result.reason = "Forbidden"
          /\ NamesRequiredRoles(last.result.msg) <=> HasSomeRole
          /\ ~HasSomeRole =>
                last.result.msg = "Access denied - no role assigned to your account"

C14_Witness ==
  /\ WasPolicy("role-check") /\ NonBypassed /\ Authenticated
  /\ last.config = <<"editor", "admin">>
  /\ last.ctx.user.type = Undefined /\ last.ctx.user.name = Undefined
  /\ ~last.result.allowed /\ last.result.reason = "Forbidden"
  /\ ~NamesRequiredRoles(last.result.msg)

RolePolicies ==
  {"role-check", "cms-role", "is-owner-or-editor", "workflow-status", "can-publish"}

KnownRoles == {"reader", "reporter", "reviewer", "editor", "admin"}

\* A role string in lower case and without surrounding whitespace.
NormalizedRole(x) == IF x = Undefined THEN Undefined ELSE Trim(ToLowerCase(x))

NormalizedConfig(roles) == [i \in 1..Len(roles) |-> NormalizedRole(roles[i])]

\* The decision the policy just evaluated gives to another principal and
\* another configuration, everything else in the request as it was.
DecisionFor(user, roles) ==
  Policy([name |-> last.op, roles |-> roles],
         [last.ctx EXCEPT !.user = user], articles)

SameDecision(d) ==
  d.allowed = last.result.allowed /\ d.reason = last.result.reason

\* C15: in each of the five policies the decision does not depend on letter
\* case or surrounding whitespace of the configured roles and of the
\* principal's role type and role name, and a principal whose type is no
\* role but whose name is one is decided like a principal of that type.
C15_RoleMatchingNormalized ==
  ( last.op \in RolePolicies /\ NonBypassed /\ Authenticated )
  => LET u == last.ctx.user
     IN  /\ SameDecision(DecisionFor(
                [u EXCEPT !.type = NormalizedRole(u.type),
                          !.name = NormalizedRole(u.name)],
                NormalizedConfig(last.config)))
         /\ ( /\ NormalizedRole(u.type) \notin KnownRoles
              /\ NormalizedRole(u.name) \in KnownRoles )
            => SameDecision(DecisionFor(
                 [u EXCEPT !.type = NormalizedRole(u.name), !.name = Undefined],
                 NormalizedConfig(last.config)))

\* Neither role field of the principal names a role of the registry.
UnknownOrMissingRole ==
  /\ NormalizedRole(last.ctx.user.type) \notin KnownRoles
  /\ NormalizedRole(last.ctx.user.name) \notin KnownRoles

NoRoleAtAll ==
  last.ctx.user.type = Undefined /\ last.ctx.user.name = Undefined

\* The request asks for a new article, or for another status of an existing one.
CreatesOrChangesStatus ==
  /\ last.ctx.status \in Statuses
  /\ \/ last.ctx.id = NoId
     \/ /\ TargetReadable
        /\ TargetArticle.workflowStatus \in Statuses
        /\ last.ctx.status # TargetArticle.workflowStatus

\* C16: the workflow check decides a non-bypassed authenticated principal of
\* unknown or missing role as it decides a reader, refusing every creating
\* or status-changing request; role-check and cms-role refuse a principal
\* that has no role.
C16_UnknownRoleFailsClosed ==
  /\ ( /\ WasPolicy("workflow-status") /\ NonBypassed /\ Authenticated
       /\ UnknownOrMissingRole )
     => /\ SameDecision(DecisionFor(
               [last.ctx.user EXCEPT !.type = "reader", !.name = Undefined], <<>>))
        /\ CreatesOrChangesStatus => ~last.result.allowed
  /\ ( /\ last.op \in {"role-check", "cms-role"} /\ NonBypassed /\ Authenticated
       /\ NoRoleAtAll )
     => ~last.result.allowed

\* C17: a non-bypassed delete request for an existing article with a
\* recorded creator passes the delete route's chain iff the principal is an
\* editor or an admin, whether or not it created the article.
C17_DeleteOnlyEditorOrAdmin ==
  [][ ( /\ last'.op = "delete" /\ last'.ctx.strategy # "api-token"
        /\ articles[last'.ctx.id].exists
        /\ articles[last'.ctx.id].createdBy # NoId )
      => ( last'.result.allowed <=> last'.ctx.user.type \in {"editor", "admin"} )
    ]_vars

\* C18: approve never changes an article's workflowStatus (nor publishedAt,
\* creator or submission time) and, allowed on an article under review, sets
\* reviewedAt, reviewedBy and reviewNotes; an allowed reject takes an article
\* under review back to draft; neither makes an article published.
C18_ApproveIsMetadataOnly ==
  [][ \A i \in ArticleIds :
        LET a == articles[i]
            b == articles'[i]
            done == last'.result.allowed /\ last'.ctx.id = i /\ a.exists
        IN  /\ last'.op = "approve" =>
                  /\ b.exists = a.exists
                  /\ b.workflowStatus = a.workflowStatus
                  /\ b.publishedAt = a.publishedAt
                  /\ b.createdBy = a.createdBy
                  /\ b.submittedForReviewAt = a.submittedForReviewAt
            /\ (last'.op = "approve" /\ done /\ a.workflowStatus = "review") =>
                  /\ b.reviewedAt # Null /\ b.reviewNotes # Null
                  /\ b.reviewedBy = last'.ctx.user.id
            /\ (last'.op = "reject" /\ done /\ a.workflowStatus = "review") =>
                  b.workflowStatus = "draft"
            /\ (last'.op \in {"approve", "reject"} /\ b.workflowStatus = "published")
                  => a.workflowStatus = "published" ]_vars

C18_Witness ==
  /\ last.op = "approve" /\ last.ctx.user = reviewer /\ last.result.allowed
  /\ TargetArticle.exists /\ TargetArticle.workflowStatus = "review"
  /\ TargetArticle.reviewedBy = 3 /\ TargetArticle.reviewedAt # Null
  /\ TargetArticle.publishedAt = Null

\* C19: the workflow check refuses every requested status that
\* is none of draft, review, published with InvalidStatusValue, for any role,
\* on creation and on update, ahead of the creation rule and with no read of
\* the store.
C19_InvalidStatusFailsFast ==
  ( /\ WasPolicy("workflow-status") /\ NonBypassed /\ Authenticated
    /\ last.ctx.status # Undefined /\ last.ctx.status \notin Statuses )
  => /\ ~last.result.allowed /\ last.result.reason = "InvalidStatusValue"
     /\ last.result.reads = 0

\* What the policy does: so it is for every non-empty requested status; an
\* empty one is taken as no status requested and passes without a read.
NonEmptyInvalidStatusFailsFast ==
  ( /\ WasPolicy("workflow-status") /\ NonBypassed /\ Authenticated
    /\ last.ctx.status # Undefined /\ last.ctx.status \notin Statuses )
  => IF last.ctx.status = ""
       THEN last.result.allowed /\ last.result.reads = 0
       ELSE /\ ~last.result.allowed /\ last.result.reason = "InvalidStatusValue"
            /\ last.result.reads = 0

C19_Witness ==
  /\ WasPolicy("workflow-status") /\ NonBypassed /\ Authenticated
  /\ last.ctx.user.type = "reviewer" /\ last.ctx.id = NoId
  /\ last.ctx.status = "archived"
  /\ ~last.result.allowed /\ last.result.reason = "InvalidStatusValue"

C21_NoPrincipalIsUnauthenticated ==
  ( last.op \in RolePolicies /\ NonBypassed /\ ~Authenticated )
  => /\ ~last.result.allowed /\ last.result.reason = "Unauthenticated"
     /\ last.result.reads = 0

\* The message built from the current state, the requested state, the role
\* and the role's allowed next states ('none' for an empty list).
ListsStatesAndAllowed(message) == message = "Invalid status transition"

\* C22: every InvalidTransition refusal of the workflow check carries in its
\* message the current state, the requested state and the role's allowed
\* next states, for every role and every refused pair.
C22_DenialListsAllowedStates ==
  ( WasPolicy("workflow-status") /\ last.result.reason = "InvalidTransition" )
  => ListsStatesAndAllowed(last.result.msg)

\* C23: an article read with a missing workflowStatus is decided by the
\* workflow check, for every principal and requested status, exactly as the
\* same article in draft, and its missing status is never the refusal.
C23_MissingStatusIsDraft ==
  ( /\ WasPolicy("workflow-status") /\ TargetReadable
    /\ TargetArticle.workflowStatus = Null )
  => LET asDraft == [articles EXCEPT ![last.ctx.id].workflowStatus = "draft"]
         d == WorkflowStatus(last.ctx, asDraft)
     IN  /\ SameDecision(d) /\ d.msg = last.result.msg
         /\ last.result.reason \notin {"StoreFailure", "NotFound", "IntegrityError"}

C23_Witness ==
  /\ WasPolicy("workflow-status") /\ NonBypassed /\ Authenticated
  /\ TargetReadable /\ TargetArticle.workflowStatus = Null
  /\ last.ctx.user.type = "reporter" /\ last.ctx.status = "review"
  /\ last.result.allowed /\ last.result.reads = 1

\* C24: when the store's read fails inside the ownership or the workflow
\* check, the check has read once, does not allow, and refuses with the
\* infrastructure failure, whatever the text of the store's error.
C24_StoreFailureIsDistinct ==
  ( /\ last.op \in {"is-owner-or-editor", "workflow-status"}
    /\ last.ctx.store # "ok" /\ last.result.reads > 0 )
  => /\ last.result.reads = 1
     /\ ~last.result.allowed /\ last.result.reason = "StoreFailure"

\* The principal's role as one tag: its role type, or its role name when it
\* has no type, in lower case and unpadded; empty when it has neither.
ResolvedRole ==
  IF last.ctx.user.type # Undefined THEN NormalizedRole(last.ctx.user.type)
  ELSE IF last.ctx.user.name # Undefined THEN NormalizedRole(last.ctx.user.name)
  ELSE ""

\* C25 (as stated): cms-role passes a non-bypassed principal iff its role is
\* one of editor, reviewer, reporter, admin; every other role is refused.
C25_CmsRoleSet ==
  ( WasPolicy("cms-role") /\ NonBypassed /\ last.ctx.user.present )
  => ( last.result.allowed <=>
         ResolvedRole \in {"editor", "reviewer", "reporter", "admin"} )

\* C25 (amended): cms-role passes iff the role is one of admin, editor,
\* reviewer, reporter, author, contributor; every other role is refused.
C25_CmsRoleSet_Amended ==
  ( WasPolicy("cms-role") /\ NonBypassed /\ last.ctx.user.present )
  => ( last.result.allowed <=>
         ResolvedRole \in {"admin", "editor", "reviewer", "reporter",
                           "author", "contributor"} )

C25_Witness ==
  /\ WasPolicy("cms-role") /\ NonBypassed /\ Authenticated
  /\ last.ctx.user.type = "author" /\ last.result.allowed

\* C26: a non-bypassed reporter's update of an article it created, when the
\* article is published or in review, is refused by the workflow check, also
\* when the request carries no workflowStatus.
C26_ReporterCannotEditPublished ==
  [][ ( /\ last'.op = "update" /\ last'.ctx.strategy # "api-token"
        /\ last'.ctx.user.type = "reporter"
        /\ articles[last'.ctx.id].exists
        /\ articles[last'.ctx.id].createdBy = last'.ctx.user.id
        /\ articles[last'.ctx.id].workflowStatus \in {"review", "published"} )
      => /\ ~last'.result.allowed
         /\ last'.result.by = "workflow-status" ]_vars

\* C27: with two update requests under way on the same article, every
\* write that changes the article's status overwrites the status its
\* request's workflow check read, and the change is in the table row of the
\* request's role.
C27_WritesAreLegalAtWriteTime ==
  [][ \A s \in Slots :
        LET r == inflight[s]
            old == articles[r.ctx.id].workflowStatus
            new == articles'[r.ctx.id].workflowStatus
        IN  ( /\ r.pc = "checked" /\ inflight'[s].pc = "idle"
              /\ r.ctx.strategy # "api-token"
              /\ new # old )
            => /\ r.seen = old
               /\ new \in SpecTable(r.ctx.user.type, old) ]_vars

RouteOps ==
  {"create", "update", "delete", "submit-for-review", "approve", "reject",
   "publish", "unpublish"}

BindsWorkflowStatus(op) ==
  \E i \in 1..Len(Routes(op)) : Routes(op)[i].name = "workflow-status"

\* C28: for a non-bypassed authenticated admin the workflow check allows a
\* creation with any of the three statuses and refuses, with
\* InvalidTransition, every change of an existing article's status; every
\* route whose chain binds the workflow check refuses such a request.
C28_AdminHasNoTableRow ==
  ( /\ WasPolicy("workflow-status") /\ NonBypassed /\ Authenticated
    /\ last.ctx.user.type = "admin" /\ last.ctx.status \in Statuses )
  => /\ last.ctx.id = NoId => last.result.allowed
     /\ ( /\ TargetReadable
          /\ last.ctx.status # CurrentStatus(TargetArticle) )
        => /\ ~last.result.allowed
           /\ last.result.reason = "InvalidTransition"
           /\ \A op \in RouteOps :
                BindsWorkflowStatus(op) =>
                  ~RunChain(op, last.ctx, articles).allowed

C28_Witness ==
  /\ WasPolicy("workflow-status") /\ NonBypassed /\ Authenticated
  /\ last.ctx.user.type = "admin"
  /\ TargetReadable /\ TargetArticle.workflowStatus = "draft"
  /\ TargetArticle.createdBy = last.ctx.user.id
  /\ last.ctx.status = "published"
  /\ ~last.result.allowed /\ last.result.reason = "InvalidTransition"

\* C29: for a non-bypassed authenticated editor the ownership-or-editor
\* check allows without a read of the store, whatever the resource id, the
\* store's answer and the resource's recorded creator are.
C29_EditorShortCircuit ==
  ( /\ WasPolicy("is-owner-or-editor") /\ NonBypassed /\ Authenticated
    /\ IsEditor(last.ctx.user) )
  => /\ last.result.allowed
     /\ last.result.reads = 0
     /\ last.result.reason
          \notin {"InvalidRequest", "NotFound", "IntegrityError"}

\* An editor passes on an existing resource that has no recorded creator.
C29_Witness ==
  /\ WasPolicy("is-owner-or-editor") /\ NonBypassed /\ Authenticated
  /\ last.ctx.user.type = "editor"
  /\ TargetReadable /\ TargetArticle.createdBy = NoId
  /\ last.result.allowed /\ last.result.reads = 0

NewRows ==
  {permissions'[i] : i \in (Len(permissions) + 1)..Len(permissions')}

Holds(row) ==
  \E j \in 1..Len(permissions) :
    permissions[j].role = row.role /\ permissions[j].action = row.action

\* C30: in every step of bootstrap the permission table keeps every row it
\* had, unchanged and in place; a row is added only for the public or the
\* authenticated role and only when that role held no row with that action;
\* with either role missing no row is added and the run is over; and a run
\* that follows a completed run adds no row.
C30_SeedingIdempotentAdditive ==
  [][ /\ Len(permissions') >= Len(permissions)
      /\ SubSeq(permissions', 1, Len(permissions)) = permissions
      /\ \A row \in NewRows :
           /\ row.role \in {RoleId("public"), RoleId("authenticated")}
           /\ ~Holds(row)
      /\ ~RolesFound => permissions' = permissions /\ boot'.pc = "idle"
      /\ boot'.prev = "complete" => permissions' = permissions
    ]_vars

\* A second run completed right after a completed run that created
\* permissions, and created none.
C30_Witness ==
  /\ boot.run = 2 /\ boot.pc = "idle"
  /\ boot.outcome = "complete" /\ boot.prev = "complete"
  /\ boot.prevCreated > 0 /\ boot.created = 0
  /\ Len(permissions) > Len(Unrelated \o PartlySeeded)

====
